---------------------------- MODULE Spec2Model ----------------------------
(***************************************************************************)
(* State-machine model of the eq-suggest-api matching engines:             *)
(*   app/strategy.py  Strategy (load-or-build-and-persist lifecycle)       *)
(*   app/guess.py     Guess (fuzzy n-gram engine) and PhraseLookup         *)
(*   app/simple.py    Simple (substring engine)                            *)
(*                                                                         *)
(* Conventions.                                                            *)
(*  - A Python str is a sequence of one-character strings.                 *)
(*  - A Python dict is a function with a finite domain; a defaultdict is   *)
(*    the same (the code only reads them with .get / "in", which never     *)
(*    insert a key).                                                       *)
(*  - A Python set is a TLA+ set; the order in which CPython iterates it   *)
(*    depends on the string hashes and on the table layout, so every       *)
(*    in-memory index carries an iteration order `order` that is drawn     *)
(*    nondeterministically whenever the sets are (re)created: by           *)
(*    build_index and by pickle.load.                                      *)
(*  - A float score is an exact fraction <<numerator, denominator>>.       *)
(***************************************************************************)
EXTENDS Integers, Sequences, FiniteSets, TLC

(***************************************************************************)
(* Strings                                                                 *)
(***************************************************************************)
UPPER == <<"A","B","C","D","E","F","G","H","I","J","K","L","M",
           "N","O","P","Q","R","S","T","U","V","W","X","Y","Z">>

LOWER == <<"a","b","c","d","e","f","g","h","i","j","k","l","m",
           "n","o","p","q","r","s","t","u","v","w","x","y","z">>

DIGITS == <<"0","1","2","3","4","5","6","7","8","9">>

LowerOf == [c \in {UPPER[i] : i \in 1..Len(UPPER)} |->
               LOWER[CHOOSE i \in 1..Len(UPPER) : UPPER[i] = c]]

\* str.lower() on one character (ASCII letters).
LowerChar(c) == IF c \in DOMAIN LowerOf THEN LowerOf[c] ELSE c

\* str.lower()
lower(s) == [i \in 1..Len(s) |-> LowerChar(s[i])]

\* string.ascii_lowercase + string.digits
charset == LOWER \o DIGITS

Alnum == {charset[i] : i \in 1..Len(charset)}

IsAlnum(c) == c \in Alnum

\* SUBSTITUTES: (character, replacement string).
SUBSTITUTES ==
    << <<"(", <<>> >>, <<")", <<>> >>, <<",", <<" ">> >>, <<"'", <<>> >>,
       <<"\"", <<>> >>, <<"-", <<" ">> >>, <<"/", <<" ">> >>,
       <<"\\", <<" ">> >>, <<"_", <<" ">> >>, <<":", <<" ">> >> >>
\* (the six non-ASCII rows of the table are left out: the phrases of the model
\* are ASCII, and a row whose character never occurs changes nothing)

RECURSIVE Flatten(_)
Flatten(ss) == IF ss = <<>> THEN <<>> ELSE Head(ss) \o Flatten(Tail(ss))

\* s.replace(old, new) for a one-character old.
replace(s, old, new) ==
    Flatten([i \in 1..Len(s) |-> IF s[i] = old THEN new ELSE <<s[i]>>])

\* for substitute in SUBSTITUTES: s = s.replace(substitute[0], substitute[1])
RECURSIVE ApplySubstitutes(_, _)
ApplySubstitutes(s, k) ==
    IF k > Len(SUBSTITUTES) THEN s
    ELSE ApplySubstitutes(replace(s, SUBSTITUTES[k][1], SUBSTITUTES[k][2]), k + 1)

\* item.lower() followed by the substitution loop.
Normalise(item) == ApplySubstitutes(lower(item), 1)

\* Maximal runs of characters satisfying / not being the separator, in order.
RECURSIVE Runs(_, _, _, _)
Runs(s, i, cur, keep) ==
    IF i > Len(s) THEN (IF cur = <<>> THEN <<>> ELSE <<cur>>)
    ELSE IF s[i] \in keep THEN Runs(s, i + 1, Append(cur, s[i]), keep)
    ELSE (IF cur = <<>> THEN <<>> ELSE <<cur>>) \o Runs(s, i + 1, <<>>, keep)

Chars(s) == {s[i] : i \in 1..Len(s)}

\* str.split(): the whitespace-delimited words.
split(s) == Runs(s, 1, <<>>, Chars(s) \ {" "})

\* re.findall('[a-z0-9]+', s)
findall_alnum(s) == Runs(s, 1, <<>>, {c \in Chars(s) : IsAlnum(c)})

\* ' '.join(data)
RECURSIVE join(_)
join(data) ==
    IF data = <<>> THEN <<>>
    ELSE IF Len(data) = 1 THEN data[1]
    ELSE data[1] \o <<" ">> \o join(Tail(data))

Range(f) == {f[x] : x \in DOMAIN f}

\* dict.get(key, default)
Get(d, key, default) == IF key \in DOMAIN d THEN d[key] ELSE default

(***************************************************************************)
(* Python values                                                           *)
(***************************************************************************)
\* Every Python value carries its type in `py`.
None == [py |-> "None"]

\* The dict Guess.build_index returns: three keys, so it is never empty.
\* `order` is the iteration order of the sets of the object in memory.
GuessIdx(v, o) ==
    [py |-> "dict", n_gram_to_tokens |-> v.n_gram_to_tokens,
     token_to_item |-> v.token_to_item, lookup |-> v.lookup, order |-> o]

\* The defaultdict(set) Simple.build_index returns.
SimpleIdx(d, o) == [py |-> "defaultdict", d |-> d, order |-> o]

\* bool(idx), as `not idx` in Strategy.init evaluates it: None and an empty
\* container are false.
Truthy(x) ==
    CASE x.py = "None" -> FALSE
      [] x.py = "dict" -> TRUE
      [] x.py = "defaultdict" -> DOMAIN x.d # {}

\* The value of an object without the iteration order of its sets: what ==
\* compares and what pickle stores.
Value(x) ==
    CASE x.py = "None" -> x
      [] x.py = "dict" -> [py |-> "dict", n_gram_to_tokens |-> x.n_gram_to_tokens,
                           token_to_item |-> x.token_to_item, lookup |-> x.lookup]
      [] x.py = "defaultdict" -> [py |-> "defaultdict", d |-> x.d]

\* d[key] = value
Put(d, key, value) ==
    [k \in DOMAIN d \cup {key} |-> IF k = key THEN value ELSE d[k]]

EmptyDict == [k \in {} |-> {}]

\* An element of a JSON array: a string or a number.
S(str) == [t |-> "str", v |-> str]

Num == [t |-> "num", v |-> <<>>]

(***************************************************************************)
(* PhraseLookup (guess.py)                                                 *)
(***************************************************************************)
\* PhraseLookup._words
words(data) == findall_alnum(ApplySubstitutes(lower(join(data)), 1))

\* PhraseLookup._build_model: model[word] += 1 for every word of the list.
RECURSIVE build_model(_, _)
build_model(word_list, model) ==
    IF word_list = <<>> THEN model
    ELSE build_model(Tail(word_list),
                     Put(model, Head(word_list), Get(model, Head(word_list), 0) + 1))

\* PhraseLookup.prime: the lookup object after priming.
prime(data) == [py |-> "PhraseLookup", model |-> build_model(words(data), EmptyDict)]

(***************************************************************************)
(* Guess.build_index and Simple.build_index                                *)
(***************************************************************************)
MIN_N_GRAM_SIZE == 3

\* The n-gram loop over range(MIN_N_GRAM_SIZE, len(token)): the proper
\* prefixes only (what build_index does not do).
RECURSIVE AddProperNGrams(_, _, _)
AddProperNGrams(n2t, token, string_size) ==
    IF string_size >= Len(token) THEN n2t
    ELSE LET n_gram == SubSeq(token, 1, string_size)
         IN AddProperNGrams(Put(n2t, n_gram, Get(n2t, n_gram, {}) \cup {token}),
                            token, string_size + 1)

\* for string_size in range(MIN_N_GRAM_SIZE, len(token) + 1):
\*     n_gram_to_tokens[token[:string_size]].add(token)
RECURSIVE AddNGrams(_, _, _)
AddNGrams(n2t, token, string_size) ==
    IF string_size > Len(token) THEN n2t
    ELSE LET n_gram == SubSeq(token, 1, string_size)
         IN AddNGrams(Put(n2t, n_gram, Get(n2t, n_gram, {}) \cup {token}),
                      token, string_size + 1)

\* for token in tokens: token_to_item[token].append(item); the n-gram loop.
RECURSIVE AddTokens(_, _, _)
AddTokens(acc, tokens, item) ==
    IF tokens = <<>> THEN acc
    ELSE LET token == Head(tokens)
         IN AddTokens(
              [token_to_item |->
                   Put(acc.token_to_item, token,
                       Append(Get(acc.token_to_item, token, <<>>), item)),
               n_gram_to_tokens |->
                   AddNGrams(acc.n_gram_to_tokens, token, MIN_N_GRAM_SIZE)],
              Tail(tokens), item)

\* for item in data: (the body of the loop of Guess.build_index)
RECURSIVE GuessItems(_, _)
GuessItems(acc, data) ==
    IF data = <<>> THEN acc
    ELSE GuessItems(AddTokens(acc, split(Normalise(Head(data))), Head(data)),
                    Tail(data))

\* The index Guess.build_index returns for a list of strings.
GuessIndex(data) ==
    LET acc == GuessItems([token_to_item |-> EmptyDict,
                           n_gram_to_tokens |-> EmptyDict], data)
    IN [n_gram_to_tokens |-> acc.n_gram_to_tokens,
        token_to_item |-> acc.token_to_item,
        lookup |-> prime(data)]

\* for string_size in range(MIN_N_GRAM_SIZE, len(norm_item) + 1):
\*     idx[norm_item[i:string_size]].add(item)          (i counts from 0)
RECURSIVE SimpleSizes(_, _, _, _, _)
SimpleSizes(idx, norm_item, item, i, string_size) ==
    IF string_size > Len(norm_item) THEN idx
    ELSE LET n_gram == SubSeq(norm_item, i + 1, string_size)
         IN SimpleSizes(Put(idx, n_gram, Get(idx, n_gram, {}) \cup {item}),
                        norm_item, item, i, string_size + 1)

\* for i in range(0, len(norm_item)):
RECURSIVE SimpleStarts(_, _, _, _)
SimpleStarts(idx, norm_item, item, i) ==
    IF i >= Len(norm_item) THEN idx
    ELSE SimpleStarts(SimpleSizes(idx, norm_item, item, i, MIN_N_GRAM_SIZE),
                      norm_item, item, i + 1)

\* for item in data: (the body of the loop of Simple.build_index)
RECURSIVE SimpleIndex(_, _)
SimpleIndex(idx, data) ==
    IF data = <<>> THEN idx
    ELSE SimpleIndex(SimpleStarts(idx, Normalise(Head(data)), Head(data), 0),
                     Tail(data))

(***************************************************************************)
(* Iteration order of a set.  CPython iterates a set in table order, which *)
(* depends on the hashes of the strings (randomised per process) and on    *)
(* the history of the table.  The model draws the order from SetOrders: a  *)
(* fixed enumeration of the elements, or its reverse.                      *)
(***************************************************************************)
SetOrders == {"fwd", "rev"}

RECURSIVE SetToSeq(_)
SetToSeq(set) ==
    IF set = {} THEN <<>>
    ELSE LET x == CHOOSE y \in set : TRUE
         IN <<x>> \o SetToSeq(set \ {x})

Reverse(seq) == [i \in 1..Len(seq) |-> seq[Len(seq) + 1 - i]]

\* list(a_set): the elements in the iteration order `order`.
IterSeq(set, order) ==
    IF order = "fwd" THEN SetToSeq(set) ELSE Reverse(SetToSeq(set))

\* seq[:n]
Take(seq, n) == SubSeq(seq, 1, IF n < Len(seq) THEN n ELSE Len(seq))

(***************************************************************************)
(* PhraseLookup queries (guess.py)                                         *)
(***************************************************************************)
\* PhraseLookup._single_edits: deletes and inserts.
single_edits(word) ==
    LET splits  == 0..Len(word)
        deletes == {SubSeq(word, 1, i) \o SubSeq(word, i + 2, Len(word)) :
                        i \in {j \in splits : j < Len(word)}}
        inserts == {SubSeq(word, 1, i) \o <<charset[c]>> \o SubSeq(word, i + 1, Len(word)) :
                        i \in splits, c \in 1..Len(charset)}
    IN deletes \cup inserts

\* PhraseLookup._known
known(model, word_set) == {w \in word_set : w \in DOMAIN model}

\* The first candidate in iteration order, whatever its count (what max with
\* key=self.model.get does not return).
FirstCandidate(seq, model) == seq[1]

\* max(candidates, key=model.get): the first element, in iteration order, whose
\* count no other element exceeds.
MaxByCount(seq, model) ==
    IF Len(seq) = 1 THEN seq[1]
    ELSE seq[CHOOSE i \in 1..Len(seq) :
                 /\ \A j \in 1..Len(seq) : model[seq[j]] <= model[seq[i]]
                 /\ \A j \in 1..(i - 1) : model[seq[j]] < model[seq[i]]]

\* PhraseLookup._lookup_word
lookup_word(lookup, word, order) ==
    LET k1 == known(lookup.model, {word})
        k2 == known(lookup.model, single_edits(word))
        candidates == IF k1 # {} THEN k1 ELSE IF k2 # {} THEN k2 ELSE {word}
    IN MaxByCount(IterSeq(candidates, order), lookup.model)

\* PhraseLookup.lookup_phrase
lookup_phrase(lookup, phrase, order) ==
    LET ws == split(phrase)
    IN [i \in 1..Len(ws) |-> lookup_word(lookup, ws[i], order)]

(***************************************************************************)
(* Guess.candidates and its ranking helpers                                *)
(***************************************************************************)
\* SCORE_THRESHOLD = 0.4, as the fraction 2/5.
SCORE_THRESHOLD == <<2, 5>>

\* a >= b for fractions with positive denominators
Ge(a, b) == a[1] * b[2] >= b[1] * a[2]

\* The indexed tokens that equal a query word, no token being reached from
\* its prefixes (what _tokens_from_ngrams does not do).
TokensEqualOnly(n_gram_to_tokens, tokens, order) ==
    IterSeq({t \in Range(tokens) : t \in Get(n_gram_to_tokens, t, {})}, order)

\* Guess._tokens_from_ngrams
tokens_from_ngrams(n_gram_to_tokens, tokens, order) ==
    IterSeq(UNION {Get(n_gram_to_tokens, tokens[i], {}) : i \in 1..Len(tokens)},
            order)

\* Guess._ranking_initial: the list of (item, score) pairs.
ranking_initial(token_to_item, real_tokens) ==
    Flatten([t \in 1..Len(real_tokens) |->
        LET token == real_tokens[t]
            possibles == Get(token_to_item, token, <<>>)
        IN [k \in 1..Len(possibles) |->
               <<possibles[k],
                 <<Len(token), Len(replace(possibles[k], " ", <<>>))>> >>]])

\* The loop `for item, score in scores` of Guess._ranking_combined: the dicts
\* ranked_items and item_to_occurrence as one list of [item, score, occ] in
\* the order in which the items were first inserted.
RECURSIVE Accumulate(_, _)
Accumulate(ranked, scores) ==
    IF scores = <<>> THEN ranked
    ELSE LET item  == Head(scores)[1]
             score == Head(scores)[2]
             at    == {i \in 1..Len(ranked) : ranked[i].item = item}
         IN IF at = {}
            THEN Accumulate(Append(ranked, [item |-> item, score |-> score, occ |-> 1]),
                            Tail(scores))
            ELSE LET i == CHOOSE j \in at : TRUE
                     old == ranked[i]
                 IN Accumulate(
                      [ranked EXCEPT ![i] =
                          [item |-> item,
                           score |-> <<old.score[1] * score[2] + score[1] * old.score[2],
                                       old.score[2] * score[2]>>,
                           occ |-> old.occ + 1]],
                      Tail(scores))

\* Guess._ranking_combined: list(ranked_items.items())
ranking_combined(scores, num_tokens) ==
    LET ranked == Accumulate(<<>>, scores)
    IN [i \in 1..Len(ranked) |->
           <<ranked[i].item,
             <<ranked[i].score[1] * ranked[i].occ, ranked[i].score[2] * num_tokens>> >>]

\* A stable sort by ascending score (what the sort with reverse=True is not).
RECURSIVE SortAsc(_, _)
SortAsc(sorted, rest) ==
    IF rest = <<>> THEN sorted
    ELSE LET x == Head(rest)
             k == Cardinality({i \in 1..Len(sorted) : Ge(x[2], sorted[i][2])})
         IN SortAsc(SubSeq(sorted, 1, k) \o <<x>> \o SubSeq(sorted, k + 1, Len(sorted)),
                    Tail(rest))

\* scores_list.sort(key=lambda t: t[1], reverse=True): a stable sort.
RECURSIVE SortDesc(_, _)
SortDesc(sorted, rest) ==
    IF rest = <<>> THEN sorted
    ELSE LET x == Head(rest)
             k == Cardinality({i \in 1..Len(sorted) : Ge(sorted[i][2], x[2])})
         IN SortDesc(SubSeq(sorted, 1, k) \o <<x>> \o SubSeq(sorted, k + 1, Len(sorted)),
                     Tail(rest))

\* seq[a:b] with 0 <= a, 0 <= b
Slice(seq, a, b) == SubSeq(seq, a + 1, IF b < Len(seq) THEN b ELSE Len(seq))

\* A filter that keeps every phrase in threshold, however many there are
\* (what _filtered_results does not do).
FilterAllInThreshold(scores, max_matches) ==
    LET scores_list == SortDesc(<<>>, scores)
        in_threshold == SelectSeq(scores_list, LAMBDA m : Ge(m[2], SCORE_THRESHOLD))
        chosen == in_threshold \o Slice(scores_list, Len(in_threshold), max_matches)
    IN [i \in 1..Len(chosen) |-> chosen[i][1]]

\* A filter that returns phrases in threshold only (what _filtered_results
\* does not do).
FilterWithoutBackFill(scores, max_matches) ==
    LET scores_list == SortDesc(<<>>, scores)
        in_threshold == SelectSeq(scores_list, LAMBDA m : Ge(m[2], SCORE_THRESHOLD))
        chosen == Slice(in_threshold, 0, max_matches)
    IN [i \in 1..Len(chosen) |-> chosen[i][1]]

\* The first max_matches pairs in the order of insertion, unsorted (what
\* _filtered_results does not return).
FilterUnsorted(scores, max_matches) ==
    LET chosen == Slice(scores, 0, max_matches)
    IN [i \in 1..Len(chosen) |-> chosen[i][1]]

\* Guess._filtered_results
filtered_results(scores, max_matches) ==
    LET scores_list == SortDesc(<<>>, scores)
        in_threshold == SelectSeq(scores_list, LAMBDA m : Ge(m[2], SCORE_THRESHOLD))
        chosen ==
            IF in_threshold = <<>> THEN Slice(scores_list, 0, max_matches)
            ELSE IF Len(in_threshold) > max_matches
            THEN Slice(in_threshold, 0, max_matches)
            ELSE in_threshold \o Slice(scores_list, Len(in_threshold), max_matches)
    IN [i \in 1..Len(chosen) |-> chosen[i][1]]

\* Guess._filtered_results on an engine whose attribute SCORE_THRESHOLD has
\* been set to `threshold`.
filtered_results_at(scores, max_matches, threshold) ==
    LET scores_list == SortDesc(<<>>, scores)
        in_threshold == SelectSeq(scores_list, LAMBDA m : Ge(m[2], threshold))
        chosen ==
            IF in_threshold = <<>> THEN Slice(scores_list, 0, max_matches)
            ELSE IF Len(in_threshold) > max_matches
            THEN Slice(in_threshold, 0, max_matches)
            ELSE in_threshold \o Slice(scores_list, Len(in_threshold), max_matches)
    IN [i \in 1..Len(chosen) |-> chosen[i][1]]

\* Guess.candidates on an engine whose fields are `mem`
Guess_candidates(mem, query, max_matches) ==
    LET tokens      == lookup_phrase(mem.lookup, lower(query), mem.order)
        real_tokens == tokens_from_ngrams(mem.n_gram_to_tokens, tokens, mem.order)
        scores      == ranking_initial(mem.token_to_item, real_tokens)
        ranked      == ranking_combined(scores, Len(tokens))
    IN [exc |-> "none", value |-> filtered_results(ranked, max_matches)]

\* Simple.candidates on an engine whose fields are `mem`
\* possibles = self.index.get(query.lower()); if possibles:
\*     return list(self.index.get(query))[:self.max_matches]
\* list(None) raises TypeError when the query itself is not a key.
Simple_candidates(mem, query, max_matches) ==
    LET possibles == Get(mem.index.d, lower(query), {})
    IN IF possibles # {}
       THEN IF query \in DOMAIN mem.index.d
            THEN [exc |-> "none",
                  value |-> Take(IterSeq(mem.index.d[query], mem.order), max_matches)]
            ELSE [exc |-> "TypeError", value |-> <<>>]
       ELSE [exc |-> "none", value |-> <<>>]

(***************************************************************************)
(* The data-set file and json.load                                         *)
(***************************************************************************)
\* Contents of a data-set path: no file, text that is not JSON, or a JSON
\* document (a number, an array of strings and numbers, an object with
\* string keys).
NoFile == [kind |-> "absent", elems |-> <<>>]

NotJson == [kind |-> "text", elems |-> <<>>]

JsonNumber == [kind |-> "number", elems |-> <<>>]

JsonArray(elems) == [kind |-> "array", elems |-> elems]

JsonObject(keys) == [kind |-> "object", elems |-> keys]

Strs(elems) == [i \in 1..Len(elems) |-> elems[i].v]

\* What `with open(self.data_file) as f: data = json.load(f)` followed by
\* `for item in data: norm_item = item.lower()` raises, "none" when the loop
\* runs through.  invalid_json is the exception the JSONDecodeError handler
\* of the strategy ends with.
ReadData(content, invalid_json) ==
    CASE content.kind = "absent" -> "StrategyError"
      [] content.kind = "text"   -> invalid_json
      [] content.kind = "number" -> "TypeError"
      [] content.kind \in {"array", "object"} ->
            IF \E i \in 1..Len(content.elems) : content.elems[i].t # "str"
            THEN "AttributeError" ELSE "none"

\* Guess.build_index: [exc, idx]; the JSONDecodeError handler raises
\* StrategyError.
Guess_build_index(content, order) ==
    LET exc == ReadData(content, "StrategyError")
    IN [exc |-> exc,
        idx |-> IF exc = "none" THEN GuessIdx(GuessIndex(Strs(content.elems)), order)
                ELSE None]

\* Simple.build_index: [exc, idx]; the JSONDecodeError handler formats `e`,
\* which that handler never binds: UnboundLocalError.
Simple_build_index(content, order) ==
    LET exc == ReadData(content, "UnboundLocalError")
    IN [exc |-> exc,
        idx |-> IF exc = "none"
                THEN SimpleIdx(SimpleIndex(EmptyDict, Strs(content.elems)), order)
                ELSE None]

(***************************************************************************)
(* pickle and the artifact file                                            *)
(***************************************************************************)
\* A pickle is a sequence of opcodes: PROTO, the container, one SETITEM per
\* entry, STOP.  A set is stored as the list of its elements.
Op(op) == [op |-> op, field |-> "", key |-> <<>>, value |-> <<>>]

SetItem(field, key, value) ==
    [op |-> "SETITEM", field |-> field, key |-> key, value |-> value]

\* One SETITEM per key of the dict.
SetItems(field, d) ==
    LET keys == SetToSeq(DOMAIN d)
    IN [i \in 1..Len(keys) |-> SetItem(field, keys[i], d[keys[i]])]

\* The sets of a dict, each as the list of its elements in iteration order.
SetsAsLists(d, order) == [k \in DOMAIN d |-> IterSeq(d[k], order)]

\* pickle.dumps(idx, -1)
Pickle(x) ==
    CASE x.py = "dict" ->
            <<Op("PROTO"), Op("DICT")>>
            \o SetItems("n_gram_to_tokens", SetsAsLists(x.n_gram_to_tokens, x.order))
            \o SetItems("token_to_item", x.token_to_item)
            \o SetItems("lookup", x.lookup.model)
            \o <<Op("STOP")>>
      [] x.py = "defaultdict" ->
            <<Op("PROTO"), Op("DEFAULTDICT")>>
            \o SetItems("index", SetsAsLists(x.d, x.order))
            \o <<Op("STOP")>>

\* The dict the SETITEMs of one field build (a later entry replaces an
\* earlier one with the same key).
DictOf(items, field, asSet) ==
    LET at == {i \in 1..Len(items) : items[i].field = field}
        last(k) == CHOOSE i \in at : items[i].key = k /\
                       \A j \in at : items[j].key = k => j <= i
    IN [k \in {items[i].key : i \in at} |->
           IF asSet THEN Range(items[last(k)].value) ELSE items[last(k)].value]

\* pickle.load: reads up to the first STOP; bytes after it are not read.
\* [ok, v]: ok is false when load raises (no STOP before the end of the
\* file, or an opcode it cannot execute).
Unpickle(bytes) ==
    LET stops == {i \in 1..Len(bytes) : bytes[i].op = "STOP"}
        stop  == CHOOSE i \in stops : \A j \in stops : i <= j
        items == SubSeq(bytes, 3, stop - 1)
        fields == IF bytes[2].op = "DICT"
                  THEN {"n_gram_to_tokens", "token_to_item", "lookup"}
                  ELSE {"index"}
        ok == /\ stops # {}
              /\ stop >= 3
              /\ bytes[1].op = "PROTO"
              /\ bytes[2].op \in {"DICT", "DEFAULTDICT"}
              /\ \A i \in 1..Len(items) :
                    items[i].op = "SETITEM" /\ items[i].field \in fields
    IN IF ~ok THEN [ok |-> FALSE, v |-> None]
       ELSE IF bytes[2].op = "DICT"
       THEN [ok |-> TRUE,
             v |-> [py |-> "dict",
                    n_gram_to_tokens |-> DictOf(items, "n_gram_to_tokens", TRUE),
                    token_to_item |-> DictOf(items, "token_to_item", FALSE),
                    lookup |-> [py |-> "PhraseLookup",
                                model |-> DictOf(items, "lookup", FALSE)]]]
       ELSE [ok |-> TRUE,
             v |-> [py |-> "defaultdict", d |-> DictOf(items, "index", TRUE)]]

\* The object pickle.load creates from a stored value: its sets are new sets.
Loaded(v, order) ==
    IF v.py = "dict" THEN GuessIdx(v, order) ELSE SimpleIdx(v.d, order)

\* A file: whether the path exists, and its bytes.
Absent == [exists |-> FALSE, bytes |-> <<>>]

\* open(path, 'wb'): the file is created or truncated.
OpenWb(file) == [exists |-> TRUE, bytes |-> <<>>]

\* A write() that leaves the file as it was (what write() does not do).
WriteNothing(file, pos, chunks) == [exists |-> TRUE, bytes |-> file.bytes]

\* f.write(chunks) at offset pos of a file opened for writing: bytes past
\* the end of the file that are skipped read as zeros.
WriteAt(file, pos, chunks) ==
    LET n == IF Len(file.bytes) > pos + Len(chunks)
             THEN Len(file.bytes) ELSE pos + Len(chunks)
    IN [exists |-> TRUE,
        bytes |-> [i \in 1..n |->
                     IF i > pos /\ i <= pos + Len(chunks) THEN chunks[i - pos]
                     ELSE IF i <= Len(file.bytes) THEN file.bytes[i]
                     ELSE Op("HOLE")]]

(***************************************************************************)
(* Strategy.index_name                                                     *)
(***************************************************************************)
INDEX_LOCATION == <<"i","n","d","e","x">>

\* Whether `sub` occurs in s at position i.
OccursAt(s, sub, i) ==
    i + Len(sub) - 1 <= Len(s) /\ SubSeq(s, i, i + Len(sub) - 1) = sub

\* path.split('.json')[0]
BeforeJson(path) ==
    LET ext == <<".","j","s","o","n">>
        at  == {i \in 1..Len(path) : OccursAt(path, ext, i)}
    IN IF at = {} THEN path
       ELSE SubSeq(path, 1, (CHOOSE i \in at : \A j \in at : i <= j) - 1)

\* Strategy.index_name
index_name(path, strategy) ==
    INDEX_LOCATION \o <<"/">> \o replace(BeforeJson(path), "/", <<"_">>)
    \o <<"_">> \o strategy \o <<".","i","d","x">>

(***************************************************************************)
(* The state machine                                                       *)
(*                                                                         *)
(* Callers are threads of control (requests of app/__init__.py); engines   *)
(* are Guess or Simple objects.  One init() runs on an engine at a time    *)
(* and an engine is queried only once init() has returned; the engines     *)
(* share the data-set file and the artifacts.  When a call has returned or *)
(* raised, the caller takes the outcome (Return) and the locals of the     *)
(* call are gone.                                                          *)
(*                                                                         *)
(* Spec is the life of one long-lived engine that two callers initialise,  *)
(* re-initialise and query while the environment replaces the data set and *)
(* removes the artifact.  SpecRace is _get_suggestions under concurrent    *)
(* requests: every caller constructs its own engine and the init() calls   *)
(* overlap on one artifact.                                                *)
(***************************************************************************)
GUESS == <<"g","u","e","s","s">>

SIMPLE == <<"s","i","m","p","l","e">>

ALL_STRATEGIES == {GUESS, SIMPLE}

DATA_PATH == <<"d","s",".","j","s","o","n">>

DEFAULT_MAX_MATCHES == 10

Callers == {"c1", "c2", "c3"}

\* The callers that share the long-lived engine.
Clients == {"c1", "c2"}

Engines == {"e1", "e2", "e3"}

\* g = guess.Guess(...) / simple.Simple(...): the engine a caller constructed.
Own(c) == CASE c = "c1" -> "e1" [] c = "c2" -> "e2" [] OTHER -> "e3"

\* The number of write() calls pickle.dump is split into, at most.
MaxWrites == 2

Abc == <<"A","b","c">>

abcd == <<"a","b","c","d">>

ab == <<"a","b">>

\* Contents the data-set file takes.
DataContents ==
    { NoFile, NotJson, JsonArray(<<Num>>),
      JsonArray(<<S(Abc), S(abcd)>>), JsonArray(<<S(ab)>>) }

\* Queries the callers make.
Queries == { <<"a","b","c">>, <<"A","b","c">> }

VARIABLES
    files,      \* data-set path -> content of the file
    artifact,   \* index file name -> file
    config,     \* engine -> [data_file, strategy_name, max_matches]
    mem,        \* engine -> its in-memory structures
    origin,     \* engine -> how init() last obtained its index (history)
    pc,         \* caller -> where it is in init() or candidates()
    call        \* caller -> the locals and the history of its call

vars == <<files, artifact, config, mem, origin, pc, call>>

IndexNames == {index_name(DATA_PATH, s) : s \in ALL_STRATEGIES}

IdxName(e) == index_name(config[e].data_file, config[e].strategy_name)

\* Guess.__init__ / Simple.__init__: the fields of a new engine.
NewMem(strategy) ==
    IF strategy = GUESS
    THEN [token_to_item |-> EmptyDict, n_gram_to_tokens |-> EmptyDict,
          lookup |-> None, order |-> "fwd"]
    ELSE [index |-> None, order |-> "fwd"]

\* The fields after the assignments of Guess.init / Simple.init.
Assigned(strategy, idx) ==
    IF strategy = GUESS
    THEN [token_to_item |-> idx.token_to_item,
          n_gram_to_tokens |-> idx.n_gram_to_tokens,
          lookup |-> idx.lookup, order |-> idx.order]
    ELSE [index |-> Value(idx), order |-> idx.order]

\* init() has returned on this engine at least once.
Ready(e) ==
    IF config[e].strategy_name = GUESS
    THEN mem[e].lookup.py # "None" ELSE mem[e].index.py # "None"

\* No content: the data-set file has not been read.
NoData == [kind |-> "none", elems |-> <<>>]

\* The locals of a call (op, eng, idx, query, ranked, exc, the value returned)
\* and what the call has done so far: what load_index met (loadSaw) and
\* returned (loaded), how often build_index ran and what it read (builds,
\* dataSeen), whether the artifact was opened, how much of the pickle is
\* written, whether nobody else has touched the artifact since (clean), the
\* engine's fields at entry (memBefore), and where an exception left (at).
NoCall ==
    [op |-> "none", eng |-> "e1", idx |-> None, loadSaw |-> "none", loaded |-> None,
     builds |-> 0, dataSeen |-> NoData, opened |-> FALSE, written |-> 0,
     clean |-> FALSE, memBefore |-> None, query |-> <<>>, ranked |-> <<>>,
     exc |-> "none", at |-> "none", value |-> <<>>]

Init ==
    /\ files = [p \in {DATA_PATH} |-> JsonArray(<<S(Abc), S(abcd)>>)]
    /\ artifact = [n \in IndexNames |-> Absent]
    /\ \E s \in ALL_STRATEGIES :
          config = [e \in Engines |-> [data_file |-> DATA_PATH, strategy_name |-> s,
                                      max_matches |-> DEFAULT_MAX_MATCHES]]
    /\ mem = [e \in Engines |-> NewMem(config[e].strategy_name)]
    /\ origin = [e \in Engines |-> "new"]
    /\ pc = [c \in Callers |-> "idle"]
    /\ call = [c \in Callers |-> NoCall]

\* The callers other than c that hold the artifact `name` open for writing.
Writers(c, name) ==
    {d \in Callers \ {c} : pc[d] = "dump" /\ IdxName(call[d].eng) = name}

\* The other callers' calls after c has opened, written or removed `name`:
\* their writes are no longer the only ones since they opened the file.
Disturb(c, name, calls) ==
    [d \in Callers |->
        IF d # c /\ calls[d].op = "init" /\ IdxName(calls[d].eng) = name
        THEN [calls[d] EXCEPT !.clean = FALSE] ELSE calls[d]]

\* An exception that leaves init() with the engine's fields cleared (what the
\* code does not do).
RaiseReset(c, exc, locals) ==
    /\ pc' = [pc EXCEPT ![c] = "raised"]
    /\ call' = [call EXCEPT ![c] = [locals EXCEPT !.exc = exc, !.at = pc[c]]]
    /\ mem' = [mem EXCEPT ![locals.eng] = NewMem(config[locals.eng].strategy_name)]
    /\ origin' = origin

\* An exception leaves init(): the assignments of Guess.init / Simple.init
\* are not reached, so the engine keeps its fields.
Raise(c, exc, locals) ==
    /\ pc' = [pc EXCEPT ![c] = "raised"]
    /\ call' = [call EXCEPT ![c] = [locals EXCEPT !.exc = exc, !.at = pc[c]]]
    /\ mem' = mem
    /\ origin' = origin

\* The iteration orders that list the sets of a value differently: none of
\* them differ when no set the engine iterates can have two elements (the
\* sets of the index, and the known words among the edits of a query word).
Orders(v) ==
    LET sets == CASE v.py = "dict" ->
                         Range(v.n_gram_to_tokens) \cup {DOMAIN v.lookup.model}
                  [] v.py = "defaultdict" -> Range(v.d)
                  [] OTHER -> {}
    IN IF \E x \in sets : Cardinality(x) > 1 THEN SetOrders ELSE {"fwd"}

\* A loader that waits at an unreadable artifact and tries again (what
\* load_index does not do).
OnBadArtifactWait(c, name) ==
    /\ pc' = pc
    /\ call' = [call EXCEPT ![c].loadSaw =
                    IF Writers(c, name) # {} THEN "torn" ELSE "bad"]
    /\ UNCHANGED <<mem, origin>>

\* An unreadable artifact taken as a cache miss (what load_index does not do).
OnBadArtifactBuild(c, name) ==
    /\ pc' = [pc EXCEPT ![c] = "build"]
    /\ call' = [call EXCEPT ![c].loadSaw = "bad"]
    /\ UNCHANGED <<mem, origin>>

\* Strategy.load_index on an artifact that pickle.load cannot read: the
\* handler raises StrategyError.
OnBadArtifact(c, name) ==
    Raise(c, "StrategyError",
          [call[c] EXCEPT !.loadSaw = IF Writers(c, name) # {} THEN "torn" ELSE "bad"])

\* A caller enters engine.init().
InitCall(c, e) ==
    /\ pc[c] = "idle"
    /\ \A d \in Callers \ {c} : pc[d] = "idle" \/ call[d].eng # e
    /\ pc' = [pc EXCEPT ![c] = "load"]
    /\ call' = [call EXCEPT ![c] =
                   [NoCall EXCEPT !.op = "init", !.eng = e, !.memBefore = mem[e]]]
    /\ UNCHANGED <<files, artifact, config, mem, origin>>

\* Strategy.load_index and the test `if not idx` of Strategy.init.
LoadIndex(c) ==
    /\ pc[c] = "load"
    /\ LET name == IdxName(call[c].eng)
           file == artifact[name]
           u    == Unpickle(file.bytes)
       IN \/ /\ ~file.exists
             /\ pc' = [pc EXCEPT ![c] = "build"]
             /\ call' = [call EXCEPT ![c].loadSaw = "absent"]
             /\ UNCHANGED <<mem, origin>>
          \/ /\ file.exists /\ ~u.ok
             /\ OnBadArtifact(c, name)
          \/ /\ file.exists /\ u.ok
             /\ \E o \in Orders(u.v) :
                   LET idx == Loaded(u.v, o)
                   IN /\ pc' = [pc EXCEPT ![c] = IF Truthy(idx) THEN "assign" ELSE "build"]
                      /\ call' = [call EXCEPT ![c].loadSaw = "ok", ![c].idx = idx,
                                               ![c].loaded = idx]
             /\ UNCHANGED <<mem, origin>>
    /\ UNCHANGED <<files, artifact, config>>

\* self.build_index()
BuildIndex(c) ==
    /\ pc[c] = "build"
    /\ LET e == call[c].eng
           content == files[config[e].data_file]
           locals == [call[c] EXCEPT !.builds = @ + 1, !.dataSeen = content]
           built(o) == IF config[e].strategy_name = GUESS
                       THEN Guess_build_index(content, o)
                       ELSE Simple_build_index(content, o)
       IN \E o \in Orders(built("fwd").idx) :
             LET r == built(o)
             IN IF r.exc # "none"
                THEN Raise(c, r.exc, locals)
                ELSE /\ pc' = [pc EXCEPT ![c] = "store"]
                     /\ call' = [call EXCEPT ![c] = [locals EXCEPT !.idx = r.idx]]
                     /\ UNCHANGED <<mem, origin>>
    /\ UNCHANGED <<files, artifact, config>>

\* Strategy.store_index: open(path, 'wb') succeeds.
StoreOpen(c) ==
    /\ pc[c] = "store"
    /\ LET name == IdxName(call[c].eng)
       IN /\ artifact' = [artifact EXCEPT ![name] = OpenWb(@)]
          /\ call' = Disturb(c, name,
                        [call EXCEPT ![c].opened = TRUE,
                                     ![c].clean = (Writers(c, name) = {})])
    /\ pc' = [pc EXCEPT ![c] = "dump"]
    /\ UNCHANGED <<files, config, mem, origin>>

\* Strategy.store_index: open raises (the directory is gone, no permission);
\* the handler raises StrategyError.
StoreOpenFail(c) ==
    /\ pc[c] = "store"
    /\ Raise(c, "StrategyError", call[c])
    /\ UNCHANGED <<files, artifact, config>>

\* The end, in the pickle, of the write() that starts at offset `written`.
NextEnd(written, total) ==
    LET size == (total + MaxWrites - 1) \div MaxWrites
    IN IF written + size > total THEN total ELSE written + size

\* Strategy.store_index: one write() of pickle.dump; after the last one the
\* `with` block closes the file and store_index returns.
StoreWrite(c) ==
    /\ pc[c] = "dump"
    /\ LET name   == IdxName(call[c].eng)
           pickle == Pickle(call[c].idx)
           end    == NextEnd(call[c].written, Len(pickle))
       IN /\ artifact' = [artifact EXCEPT ![name] =
                             WriteAt(@, call[c].written,
                                     SubSeq(pickle, call[c].written + 1, end))]
          /\ call' = Disturb(c, name, [call EXCEPT ![c].written = end])
          /\ pc' = [pc EXCEPT ![c] = IF end = Len(pickle) THEN "assign" ELSE "dump"]
    /\ UNCHANGED <<files, config, mem, origin>>

\* Strategy.store_index: pickle.dump raises (the disk is full); the `with`
\* block closes the file as it is and the handler raises StrategyError.
StoreWriteFail(c) ==
    /\ pc[c] = "dump"
    /\ Raise(c, "StrategyError", call[c])
    /\ UNCHANGED <<files, artifact, config>>

\* Strategy.init returns idx; Guess.init / Simple.init assign the fields.
Assign(c) ==
    /\ pc[c] = "assign"
    /\ LET e == call[c].eng
       IN /\ mem' = [mem EXCEPT ![e] = Assigned(config[e].strategy_name, call[c].idx)]
          /\ origin' = [origin EXCEPT ![e] =
                            IF call[c].builds = 0 THEN "loaded" ELSE "built"]
    /\ pc' = [pc EXCEPT ![c] = "returned"]
    /\ UNCHANGED <<files, artifact, config, call>>

\* Lookups that insert the keys they miss, as indexing a defaultdict would
\* (what candidates() does not do).
QueriedInserting(m, keys) ==
    LET add(d) == [k \in DOMAIN d \cup Range(keys) |->
                      IF k \in DOMAIN d THEN d[k] ELSE {}]
    IN IF "index" \in DOMAIN m
       THEN [m EXCEPT !.index = [@ EXCEPT !.d = add(@)]]
       ELSE [m EXCEPT !.n_gram_to_tokens = add(@)]

\* The engine's fields after candidates() has read them: `.get(key, default)`
\* on a defaultdict returns the default without inserting the key.
Queried(m, keys) == m

\* A caller enters engine.candidates(query).
CandidatesCall(c, e, q) ==
    /\ pc[c] = "idle"
    /\ Ready(e)
    /\ \A d \in Callers \ {c} :
          call[d].eng = e => pc[d] \in {"idle", "rank", "filter", "returned", "raised"}
    /\ pc' = [pc EXCEPT ![c] = "rank"]
    /\ call' = [call EXCEPT ![c] =
                   [NoCall EXCEPT !.op = "candidates", !.eng = e, !.query = q,
                                  !.memBefore = mem[e]]]
    /\ UNCHANGED <<files, artifact, config, mem, origin>>

\* Guess.candidates up to _ranking_combined; Simple.candidates up to the
\* lookup of the lower-cased query.
CandidatesRank(c) ==
    /\ pc[c] = "rank"
    /\ LET e == call[c].eng
           q == call[c].query
       IN IF config[e].strategy_name = GUESS
          THEN LET tokens == lookup_phrase(mem[e].lookup, lower(q), mem[e].order)
                   real_tokens == tokens_from_ngrams(mem[e].n_gram_to_tokens,
                                                     tokens, mem[e].order)
                   scores == ranking_initial(mem[e].token_to_item, real_tokens)
               IN /\ call' = [call EXCEPT ![c].ranked =
                                 ranking_combined(scores, Len(tokens))]
                  /\ mem' = [mem EXCEPT ![e] = Queried(@, tokens)]
          ELSE /\ call' = call
               /\ mem' = [mem EXCEPT ![e] = Queried(@, <<lower(q)>>)]
    /\ pc' = [pc EXCEPT ![c] = "filter"]
    /\ UNCHANGED <<files, artifact, config, origin>>

\* Guess._filtered_results, or the slice of Simple.candidates; the call
\* returns or raises.
CandidatesReturn(c) ==
    /\ pc[c] = "filter"
    /\ LET e == call[c].eng
           r == IF config[e].strategy_name = GUESS
                THEN [exc |-> "none",
                      value |-> filtered_results(call[c].ranked, config[e].max_matches)]
                ELSE Simple_candidates(mem[e], call[c].query, config[e].max_matches)
       IN /\ call' = [call EXCEPT ![c].exc = r.exc, ![c].value = r.value,
                                  ![c].ranked = <<>>,
                                  ![c].at = IF r.exc = "none" THEN "none" ELSE "filter"]
          /\ pc' = [pc EXCEPT ![c] = IF r.exc = "none" THEN "returned" ELSE "raised"]
    /\ UNCHANGED <<files, artifact, config, mem, origin>>

\* The caller takes the result or the exception of its call.
Return(c) ==
    /\ pc[c] \in {"returned", "raised"}
    /\ pc' = [pc EXCEPT ![c] = "idle"]
    /\ call' = [call EXCEPT ![c] = NoCall]
    /\ UNCHANGED <<files, artifact, config, mem, origin>>

\* Outside the program: the data-set file is replaced, removed or created.
ChangeDataSet(content) ==
    /\ files[DATA_PATH] # content
    /\ files' = [files EXCEPT ![DATA_PATH] = content]
    /\ UNCHANGED <<artifact, config, mem, origin, pc, call>>

\* Outside the program: an artifact that no caller holds open is removed.
RemoveArtifact(name) ==
    /\ artifact[name].exists
    /\ \A c \in Callers : ~(pc[c] = "dump" /\ IdxName(call[c].eng) = name)
    /\ artifact' = [artifact EXCEPT ![name] = Absent]
    /\ call' = Disturb("", name, call)
    /\ UNCHANGED <<files, config, mem, origin, pc>>

\* A long-lived engine that the callers share.
Shared == "e1"

\* The program with one engine that two callers share: init() has the engine
\* to itself, queries run concurrently, and the environment replaces the
\* data set and removes the artifact at any time.
Next ==
    \/ \E c \in Clients : InitCall(c, Shared)
    \/ \E c \in Clients : LoadIndex(c)
    \/ \E c \in Clients : BuildIndex(c)
    \/ \E c \in Clients : StoreOpen(c)
    \/ \E c \in Clients : StoreOpenFail(c)
    \/ \E c \in Clients : StoreWrite(c)
    \/ \E c \in Clients : StoreWriteFail(c)
    \/ \E c \in Clients : Assign(c)
    \/ \E c \in Clients, q \in Queries : CandidatesCall(c, Shared, q)
    \/ \E c \in Clients : CandidatesRank(c)
    \/ \E c \in Clients : CandidatesReturn(c)
    \/ \E c \in Clients : Return(c)
    \/ \E content \in DataContents : ChangeDataSet(content)
    \/ \E name \in IndexNames : RemoveArtifact(name)

Spec == Init /\ [][Next]_vars

\* The program with an engine for each caller, initialised once as
\* _get_suggestions does, the callers running init() concurrently on one
\* data set and an index directory that takes every write.
NextRace ==
    \/ \E c \in Callers : origin[Own(c)] = "new" /\ InitCall(c, Own(c))
    \/ \E c \in Callers : LoadIndex(c)
    \/ \E c \in Callers : BuildIndex(c)
    \/ \E c \in Callers : StoreOpen(c)
    \/ \E c \in Callers : StoreWrite(c)
    \/ \E c \in Callers : Assign(c)
    \/ \E c \in Callers : Return(c)

SpecRace == Init /\ [][NextRace]_vars

(***************************************************************************)
(* One engine, one data set, the queries of one caller                     *)
(***************************************************************************)
\* Phrases of the data sets.
Bacon == <<"B","a","c","o","n">>

Eggs == <<"E","g","g","s">>

Fried_Eggs == <<"F","r","i","e","d"," ","E","g","g","s">>

Scrambled_Eggs == <<"S","c","r","a","m","b","l","e","d"," ","E","g","g","s">>

Toast == <<"T","o","a","s","t">>

Raisin_Toast == <<"R","a","i","s","i","n"," ","T","o","a","s","t">>

Back == <<"B","a","c","k">>

Eggs_Eggs == <<"E","g","g","s"," ","E","g","g","s">>

abc == <<"a","b","c">>

abd == <<"a","b","d">>

abe == <<"a","b","e">>

abd_abe == <<"a","b","d"," ","a","b","e">>

abc_de == <<"a","b","c"," ","d","e">>

abc_def == <<"a","b","c"," ","d","e","f">>

abc_defgh == <<"a","b","c"," ","d","e","f","g","h">>

xyz_abcdefgh == <<"x","y","z"," ","a","b","c","d","e","f","g","h">>

\* Query strings besides the phrases above.
eggs == <<"e","g","g","s">>

egg == <<"e","g","g">>

ergs == <<"e","r","g","s">>

toast == <<"t","o","a","s","t">>

tiast == <<"t","i","a","s","t">>

bacin == <<"b","a","c","i","n">>

bac == <<"b","a","c">>

Bac == <<"B","a","c">>

xyz == <<"x","y","z">>

abc_xyz == <<"a","b","c"," ","x","y","z">>


\* json.load of a file that holds a list of these strings.
Phrases(items) == JsonArray([i \in 1..Len(items) |-> S(items[i])])

\* The data sets an engine is built from.
QueryData ==
    { <<Bacon>>,
      <<Bacon, Eggs, Fried_Eggs, Scrambled_Eggs>>,
      <<Toast, Raisin_Toast>>,
      <<Bacon, Back>>,
      <<Eggs, Eggs>>,
      <<Eggs_Eggs>>,
      <<Abc, abcd>>,
      <<abc, abd_abe, abd, abe>>,
      <<abc, abc_de, abc_def, abc_defgh, xyz_abcdefgh>> }

\* The query strings a caller passes to candidates().
QueryInputs ==
    { eggs, egg, ergs, toast, tiast, bacin, bac, Bac, xyz, abc, ab, abc_xyz }

\* The values of max_matches an engine is constructed with.
MaxMatchesValues == {0, 1, 3, DEFAULT_MAX_MATCHES}

\* The data sets the substring engine is built from: those of short phrases
\* (its index has a key for every slice of a phrase).
SimpleData == { <<Bacon>>, <<Bacon, Back>>, <<Eggs, Eggs>>, <<Abc, abcd>> }

\* An engine constructed on one of the data sets, by one of the strategies.
InitQuery ==
    /\ artifact = [n \in IndexNames |-> Absent]
    /\ \E s \in ALL_STRATEGIES, max_matches \in MaxMatchesValues :
          /\ config = [e \in Engines |-> [data_file |-> DATA_PATH, strategy_name |-> s,
                                         max_matches |-> max_matches]]
          /\ \E data \in IF s = GUESS THEN QueryData ELSE SimpleData :
                files = [p \in {DATA_PATH} |-> Phrases(data)]
    /\ mem = [e \in Engines |-> NewMem(config[e].strategy_name)]
    /\ origin = [e \in Engines |-> "new"]
    /\ pc = [c \in Callers |-> "idle"]
    /\ call = [c \in Callers |-> NoCall]

\* The one caller of the engine.
Caller == "c1"

\* One request after another on one engine: g.init() once, then
\* g.candidates(query) for any query, with nothing else touching the files.
NextQuery ==
    \/ origin[Shared] = "new" /\ InitCall(Caller, Shared)
    \/ LoadIndex(Caller)
    \/ BuildIndex(Caller)
    \/ StoreOpen(Caller)
    \/ StoreWrite(Caller)
    \/ Assign(Caller)
    \/ \E q \in QueryInputs : CandidatesCall(Caller, Shared, q)
    \/ CandidatesRank(Caller)
    \/ CandidatesReturn(Caller)
    \/ Return(Caller)

SpecQuery == InitQuery /\ [][NextQuery]_vars

(***************************************************************************)
(* Engines for different data sets and strategies, one index directory     *)
(***************************************************************************)
\* Data-set paths: a file in a directory, a file whose name has '_' where
\* the first has '/', a file whose name continues after '.json', and
\* DATA_PATH.
PATH_IN_DIR == <<"a","/","b",".","j","s","o","n">>

PATH_FLAT == <<"a","_","b",".","j","s","o","n">>

PATH_SUFFIXED == <<"a","/","b",".","j","s","o","n","2">>

DataPaths == {PATH_IN_DIR, PATH_FLAT, PATH_SUFFIXED, DATA_PATH}

\* The data set each of the files holds.
DataAt(path) ==
    CASE path = PATH_IN_DIR -> Phrases(<<Bacon>>)
      [] path = PATH_FLAT -> Phrases(<<Back>>)
      [] path = PATH_SUFFIXED -> Phrases(<<Eggs>>)
      [] OTHER -> Phrases(<<Toast>>)

\* The artifact paths of all the engines.
AllIndexNames == {index_name(p, s) : p \in DataPaths, s \in ALL_STRATEGIES}

\* Two requests, each constructing an engine for a data set and a strategy.
InitPaths ==
    /\ files = [p \in DataPaths |-> DataAt(p)]
    /\ artifact = [n \in AllIndexNames |-> Absent]
    /\ \E p1, p2 \in DataPaths, s1, s2 \in ALL_STRATEGIES :
          config = [e \in Engines |->
                       IF e = Own("c2")
                       THEN [data_file |-> p2, strategy_name |-> s2,
                             max_matches |-> DEFAULT_MAX_MATCHES]
                       ELSE [data_file |-> p1, strategy_name |-> s1,
                             max_matches |-> DEFAULT_MAX_MATCHES]]
    /\ mem = [e \in Engines |-> NewMem(config[e].strategy_name)]
    /\ origin = [e \in Engines |-> "new"]
    /\ pc = [c \in Callers |-> "idle"]
    /\ call = [c \in Callers |-> NoCall]

\* The requests run g.init() one after the other, in any order.
NextPaths ==
    \/ \E c \in Clients :
          /\ origin[Own(c)] = "new"
          /\ \A d \in Callers : pc[d] = "idle"
          /\ InitCall(c, Own(c))
    \/ \E c \in Clients : LoadIndex(c)
    \/ \E c \in Clients : BuildIndex(c)
    \/ \E c \in Clients : StoreOpen(c)
    \/ \E c \in Clients : StoreWrite(c)
    \/ \E c \in Clients : Assign(c)
    \/ \E c \in Clients : Return(c)

SpecPaths == InitPaths /\ [][NextPaths]_vars


(***************************************************************************)
(* Properties                                                              *)
(***************************************************************************)
\* The engine a call runs on, its strategy and its artifact.
StrategyOf(c) == config[call[c].eng].strategy_name

\* The indexes build_index can return for the data set the call read: one
\* value, with any iteration order of its sets.
BuiltFrom(c) ==
    {(IF StrategyOf(c) = GUESS THEN Guess_build_index(call[c].dataSeen, o)
      ELSE Simple_build_index(call[c].dataSeen, o)).idx : o \in SetOrders}

\* The artifact holds exactly the pickle of idx.
Holds(name, idx) == artifact[name] = [exists |-> TRUE, bytes |-> Pickle(idx)]

\* C1 (as the spec states it): an init() whose load_index found an artifact
\* that deserialized, whatever index it holds, never calls build_index, never
\* reads the data set, never opens the artifact for writing, and returns with
\* the engine's fields set from the loaded index.
C1_CacheHit ==
    \A c \in Callers :
        (call[c].op = "init" /\ call[c].loadSaw = "ok") =>
            /\ call[c].builds = 0
            /\ call[c].dataSeen = NoData
            /\ ~call[c].opened
            /\ pc[c] = "returned" =>
                  mem[call[c].eng] = Assigned(StrategyOf(c), call[c].loaded)

\* C2: an init() whose load_index found no artifact calls build_index once,
\* opens the artifact only after the build has returned an index, has written
\* the whole pickle of that index (the artifact holding exactly it when nobody
\* else touched the file) before it returns, and returns with the engine's
\* fields set from the built index.
C2_CacheMiss ==
    \A c \in Callers :
        (call[c].op = "init" /\ call[c].loadSaw = "absent") =>
            /\ call[c].builds = (IF pc[c] = "build" THEN 0 ELSE 1)
            /\ call[c].opened => call[c].idx \in BuiltFrom(c)
            /\ pc[c] \in {"assign", "returned"} =>
                  /\ call[c].idx \in BuiltFrom(c)
                  /\ call[c].opened
                  /\ call[c].written = Len(Pickle(call[c].idx))
                  /\ call[c].clean => Holds(IdxName(call[c].eng), call[c].idx)
            /\ pc[c] = "returned" =>
                  mem[call[c].eng] = Assigned(StrategyOf(c), call[c].idx)

\* C2's case: a cache miss has built, stored and returned an index with entries.
C2_Witness ==
    \E c \in Callers :
        /\ call[c].op = "init" /\ call[c].loadSaw = "absent" /\ pc[c] = "returned"
        /\ call[c].clean /\ Truthy(call[c].idx)
        /\ Holds(IdxName(call[c].eng), call[c].idx)

\* The data set is missing, is not JSON, or is JSON that is not a sequence of
\* strings.
InvalidData(content) ==
    \/ content.kind \in {"absent", "text", "number", "object"}
    \/ content.kind = "array" /\ \E i \in 1..Len(content.elems) : content.elems[i].t # "str"

\* C3 (as the spec states it): on a cache miss whose build_index reads a
\* missing, non-JSON or non-string-sequence data set, init() fails, and the
\* exception the caller gets is a StrategyError, for either strategy.
C3_BuildFailure ==
    \A c \in Callers :
        (call[c].op = "init" /\ call[c].loadSaw = "absent" /\ call[c].builds = 1
         /\ InvalidData(call[c].dataSeen)) =>
            pc[c] = "raised" /\ call[c].exc = "StrategyError"

\* The artifact is present and pickle.load cannot read it.
Unreadable(name) == artifact[name].exists /\ ~Unpickle(artifact[name].bytes).ok

\* No init() is between its cache miss and the end of its write of `name`.
AtRest(name) ==
    \A c \in Callers :
        ~(call[c].op = "init" /\ pc[c] \in {"build", "store", "dump"}
          /\ IdxName(call[c].eng) = name)

\* C4: an init() whose load_index meets a present artifact that cannot be
\* deserialized raises StrategyError without calling build_index and without
\* opening, changing or removing the artifact; an unreadable artifact that no
\* running init() is writing stays unreadable until it is removed, so every
\* later init() meets it and fails the same way.
C4_BadArtifact ==
    /\ [](\A c \in Callers :
            (call[c].op = "init" /\ call[c].loadSaw = "bad") =>
                /\ pc[c] = "raised" /\ call[c].exc = "StrategyError"
                /\ call[c].builds = 0 /\ ~call[c].opened)
    /\ [][\A c \in Callers :
            (pc[c] = "load" /\ pc'[c] # "load" /\ Unreadable(IdxName(call[c].eng))) =>
                /\ pc'[c] = "raised" /\ call'[c].exc = "StrategyError"
                /\ artifact' = artifact]_vars
    /\ [][\A name \in IndexNames :
            (Unreadable(name) /\ AtRest(name)) =>
                (artifact'[name] = artifact[name] \/ artifact'[name] = Absent)]_vars

\* C4's case: init() has failed on an artifact that is present and unreadable.
C4_Witness ==
    \E c \in Callers :
        /\ call[c].op = "init" /\ call[c].loadSaw = "bad" /\ pc[c] = "raised"
        /\ Unreadable(IdxName(call[c].eng))

\* C5: when init() has raised, at load, build or store, the engine's fields
\* are what they were when the call began; when it raised in build_index the
\* call has not opened or written the artifact, and after a cache miss on an
\* absent file there is still no artifact.
C5_FailureFrame ==
    \A c \in Callers :
        (call[c].op = "init" /\ pc[c] = "raised") =>
            /\ mem[call[c].eng] = call[c].memBefore
            /\ call[c].at = "build" =>
                  /\ ~call[c].opened /\ call[c].written = 0
                  /\ call[c].loadSaw = "absent" => ~artifact[IdxName(call[c].eng)].exists

\* C5's case: build_index has failed in an init() of an engine that an
\* earlier init() had populated.
C5_Witness ==
    \E c \in Callers :
        /\ call[c].op = "init" /\ pc[c] = "raised" /\ call[c].at = "build"
        /\ call[c].loadSaw = "absent"
        /\ call[c].memBefore # NewMem(StrategyOf(c))

\* The init() calls that met no artifact, built an index and wrote it whole.
Builders ==
    {c \in Callers :
        /\ call[c].op = "init" /\ call[c].loadSaw = "absent" /\ call[c].builds = 1
        /\ pc[c] \in {"assign", "returned"}
        /\ call[c].written = Len(Pickle(call[c].idx))}

\* C6: with init() calls running concurrently, every call that met no
\* artifact builds for itself; a writer that nobody has disturbed since its
\* open leaves exactly its own index in the artifact (the last writer wins);
\* and a load that meets an unreadable artifact while a writer holds it open
\* raises StrategyError without building or writing.
C6_Race ==
    \A c \in Callers :
        call[c].op = "init" =>
            /\ (call[c].loadSaw = "absent" /\ pc[c] # "build") => call[c].builds = 1
            /\ (c \in Builders /\ call[c].clean) =>
                  Holds(IdxName(call[c].eng), call[c].idx)
            /\ call[c].loadSaw = "torn" =>
                  /\ pc[c] = "raised" /\ call[c].exc = "StrategyError"
                  /\ call[c].builds = 0 /\ ~call[c].opened

\* C6's case: two callers both met a cache miss, both built and both wrote,
\* their pickles differ and the artifact holds the last writer's; a third
\* caller loaded while a writer held the artifact open and failed.
C6_Witness ==
    \E a, b, t \in Callers :
        /\ a # b /\ a \in Builders /\ b \in Builders
        /\ Pickle(call[a].idx) # Pickle(call[b].idx)
        /\ call[b].clean /\ Holds(IdxName(call[b].eng), call[b].idx)
        /\ call[t].op = "init" /\ call[t].loadSaw = "torn" /\ pc[t] = "raised"

\* candidates(q) run alone on an engine whose fields are m: what it raises
\* and what it returns.
RunAlone(strategy, m, q, max_matches) ==
    IF strategy = GUESS THEN Guess_candidates(m, q, max_matches)
    ELSE Simple_candidates(m, q, max_matches)

\* C7: no step of a candidates() call changes an engine's fields or an
\* artifact, whatever the other callers and the environment do in between;
\* and a call that has ended has raised and returned what candidates(query)
\* run alone raises and returns on the engine as it was when the call began,
\* which is the engine as it still is.
C7_ReadOnlyQueries ==
    /\ [][\A c \in Callers :
            (pc'[c] # pc[c] /\ (pc[c] \in {"rank", "filter"} \/ pc'[c] = "rank")) =>
                mem' = mem /\ artifact' = artifact]_vars
    /\ [](\A c \in Callers :
            (call[c].op = "candidates" /\ pc[c] \in {"returned", "raised"}) =>
                LET e == call[c].eng
                    alone == RunAlone(config[e].strategy_name, call[c].memBefore,
                                      call[c].query, config[e].max_matches)
                IN /\ call[c].exc = alone.exc
                   /\ call[c].value = alone.value
                   /\ mem[e] = call[c].memBefore)

\* C7's case: a query has returned candidates while another caller is inside
\* candidates() on the same engine and the artifact has been removed.
C7_Witness ==
    \E c, d \in Callers :
        /\ c # d /\ call[c].op = "candidates" /\ call[d].op = "candidates"
        /\ call[c].eng = call[d].eng
        /\ pc[c] = "returned" /\ call[c].value # <<>>
        /\ pc[d] \in {"rank", "filter"}
        /\ ~artifact[IdxName(call[c].eng)].exists

\* The index object an initialised engine holds in its fields.
IndexOf(e) ==
    IF config[e].strategy_name = GUESS THEN GuessIdx(mem[e], mem[e].order)
    ELSE SimpleIdx(mem[e].index.d, mem[e].order)

\* candidates(q) gives the same outcome on engines with fields m1 and m2, for
\* every query.
SameCandidates(strategy, m1, m2, max_matches) ==
    \A q \in Queries :
        RunAlone(strategy, m1, q, max_matches) = RunAlone(strategy, m2, q, max_matches)

\* C8 (as the spec states it): when one engine built its index and stored it,
\* the artifact still holding that pickle, and another engine was initialised
\* by loading, then load_index(store_index(idx)) equals idx, the two engines
\* hold equal indexes, and candidates() gives the same output on both for
\* every query.
C8_RoundTrip ==
    \A b, l \in Engines :
        (origin[b] = "built" /\ origin[l] = "loaded" /\ Holds(IdxName(b), IndexOf(b))) =>
            /\ Unpickle(Pickle(IndexOf(b))) = [ok |-> TRUE, v |-> Value(IndexOf(b))]
            /\ Value(IndexOf(l)) = Value(IndexOf(b))
            /\ SameCandidates(config[b].strategy_name, mem[b], mem[l],
                              config[b].max_matches)

\* C9 (as the spec states it): when init() is called on an engine that is
\* already initialised and load_index returns, from the artifact, an index
\* equal to the one the engine holds, candidates() gives for every query the
\* same output after the call as before it.
C9_Idempotent ==
    \A c \in Callers :
        (/\ call[c].op = "init" /\ pc[c] = "returned" /\ call[c].loadSaw = "ok"
         /\ call[c].memBefore # NewMem(StrategyOf(c))
         /\ Assigned(StrategyOf(c), Loaded(Value(call[c].loaded), call[c].memBefore.order))
               = call[c].memBefore) =>
            SameCandidates(StrategyOf(c), call[c].memBefore, mem[call[c].eng],
                           config[call[c].eng].max_matches)

\* The fuzzy-engine init() calls whose build_index has returned an index.
GuessBuilt ==
    {c \in Callers :
        /\ call[c].op = "init" /\ StrategyOf(c) = GUESS /\ call[c].builds = 1
        /\ pc[c] \in {"store", "dump", "assign", "returned"}}

\* Token t is a key of NGramMap and a member of NGramMap[t]; and when the
\* query t resolves to the word t, candidates(t) has every phrase of
\* TokenIndex[t].
ReachedByItself(idx, t, max_matches) ==
    LET m == Assigned(GUESS, idx)
    IN /\ t \in DOMAIN idx.n_gram_to_tokens
       /\ t \in Get(idx.n_gram_to_tokens, t, {})
       /\ lookup_phrase(m.lookup, t, m.order) = <<t>> =>
             Range(idx.token_to_item[t])
                \subseteq Range(Guess_candidates(m, t, max_matches).value)

\* C10 (amended): after the fuzzy engine's build, every token of TokenIndex
\* that has at least MIN_N_GRAM_SIZE characters is a key of NGramMap and a
\* member of its own entry, and a query that resolves to it has every phrase
\* of its TokenIndex entry among the candidates.
C10_TokensOfNGramSize ==
    \A c \in GuessBuilt :
        \A t \in DOMAIN call[c].idx.token_to_item :
            Len(t) >= MIN_N_GRAM_SIZE =>
                ReachedByItself(call[c].idx, t, config[call[c].eng].max_matches)

\* C10 (as the spec states it): the same for every token of TokenIndex, of
\* any length.
C10_TokensOfAnyLength ==
    \A c \in GuessBuilt :
        \A t \in DOMAIN call[c].idx.token_to_item :
            ReachedByItself(call[c].idx, t, config[call[c].eng].max_matches)

\* C10's case: a build has indexed a token longer than MIN_N_GRAM_SIZE, which
\* a query resolves to and which has a phrase.
C10_Witness ==
    \E c \in GuessBuilt :
        \E t \in DOMAIN call[c].idx.token_to_item :
            /\ Len(t) > MIN_N_GRAM_SIZE
            /\ lookup_phrase(call[c].idx.lookup, t, call[c].idx.order) = <<t>>
            /\ call[c].idx.token_to_item[t] # <<>>

(***************************************************************************)
(* Queries on one engine (SpecQuery)                                       *)
(***************************************************************************)
\* The fuzzy engine's call is past _ranking_combined: call[c].ranked holds
\* the combined scores.
Ranked(c) == pc[c] = "filter" /\ StrategyOf(c) = GUESS

\* The words the query of the call resolves to.
ResolvedWords(c) ==
    LET m == mem[call[c].eng]
    IN lookup_phrase(m.lookup, lower(call[c].query), m.order)

\* The indexed tokens the resolved words reach through NGramMap.
MatchedTokens(c) ==
    UNION {Get(mem[call[c].eng].n_gram_to_tokens, w, {}) :
              w \in Range(ResolvedWords(c))}

\* The distinct tokens of a phrase.
TokensOf(p) == Range(split(Normalise(p)))

RECURSIVE SumLen(_)
SumLen(tokens) ==
    IF tokens = {} THEN 0
    ELSE LET t == CHOOSE x \in tokens : TRUE
         IN Len(t) + SumLen(tokens \ {t})

\* Equality of two fractions <<numerator, denominator>>.
SameScore(a, b) == a[1] * b[2] = b[1] * a[2]

\* The combined score of phrase p with every distinct matched token of p
\* counted once.
ScoreOfDistinctTokens(c, p) ==
    LET tokens == MatchedTokens(c) \cap TokensOf(p)
    IN <<SumLen(tokens) * Cardinality(tokens),
         Len(replace(p, " ", <<>>)) * Len(ResolvedWords(c))>>

\* C11: the combined score of every candidate phrase p is the sum of
\* len(t) / len(p without spaces) over the distinct matched tokens t of p,
\* times (number of those tokens / number of query words), each distinct
\* token counted once also when p repeats it or the data set repeats p.
C11_CombinedScore ==
    \A c \in Callers :
        Ranked(c) =>
            \A i \in 1..Len(call[c].ranked) :
                SameScore(call[c].ranked[i][2],
                          ScoreOfDistinctTokens(c, call[c].ranked[i][1]))

\* The combined scores the fuzzy engine computes for the query of the call.
ScoresOf(c) ==
    LET m == mem[call[c].eng]
        tokens == ResolvedWords(c)
        real_tokens == tokens_from_ngrams(m.n_gram_to_tokens, tokens, m.order)
    IN ranking_combined(ranking_initial(m.token_to_item, real_tokens), Len(tokens))

\* The score of phrase p in a list of (phrase, score) pairs.
ScoreIn(scores, p) == scores[CHOOSE i \in 1..Len(scores) : scores[i][1] = p][2]

\* The phrases of a list of (phrase, score) pairs.
PhrasesIn(scores) == {scores[i][1] : i \in 1..Len(scores)}

\* The phrases whose score is at or above the acceptance threshold.
InThreshold(scores) ==
    {p \in PhrasesIn(scores) : Ge(ScoreIn(scores, p), SCORE_THRESHOLD)}

\* No phrase left out of `result` scores strictly higher than a phrase of
\* `among` that is in it.
NoneBetterOmitted(scores, result, among) ==
    \A p \in among \cap Range(result) :
        \A q \in PhrasesIn(scores) \ Range(result) :
            Ge(ScoreIn(scores, p), ScoreIn(scores, q))

\* The fuzzy engine's call c returns from _filtered_results in this step.
Filters(c) == Ranked(c) /\ pc'[c] = "returned"

\* C12: when more than max_matches phrases score at or above the threshold,
\* candidates() returns exactly max_matches phrases, every one of them at or
\* above the threshold, and no omitted phrase scores strictly higher than a
\* returned one.
C12_Truncation ==
    [][\A c \in Callers :
          Filters(c) =>
             LET scores == call[c].ranked
                 result == call'[c].value
                 max_matches == config[call[c].eng].max_matches
             IN Cardinality(InThreshold(scores)) > max_matches =>
                   /\ Len(result) = max_matches
                   /\ Range(result) \subseteq InThreshold(scores)
                   /\ Cardinality(Range(result)) = max_matches
                   /\ NoneBetterOmitted(scores, result, PhrasesIn(scores))]_vars

\* C12's case: a call has returned a cut of at least one phrase from more
\* than max_matches phrases in threshold, of which not all score the same.
C12_Witness ==
    \E c \in Callers :
        /\ pc[c] = "returned" /\ call[c].op = "candidates" /\ StrategyOf(c) = GUESS
        /\ call[c].value # <<>>
        /\ Cardinality(InThreshold(ScoresOf(c))) > config[call[c].eng].max_matches
        /\ \E p, q \in InThreshold(ScoresOf(c)) :
              ~Ge(ScoreIn(ScoresOf(c), q), ScoreIn(ScoresOf(c), p))

\* C13: when fewer than max_matches phrases (possibly none) score at or
\* above the threshold, candidates() returns all of them first, then the
\* next-highest phrases below the threshold until max_matches is reached or
\* the candidates are exhausted: min(max_matches, number of candidates) minus
\* the number in threshold of them.
C13_BackFill ==
    [][\A c \in Callers :
          Filters(c) =>
             LET scores == call[c].ranked
                 result == call'[c].value
                 max_matches == config[call[c].eng].max_matches
                 above == InThreshold(scores)
                 n == Cardinality(above)
                 total == IF max_matches < Len(scores) THEN max_matches ELSE Len(scores)
                 below == {k \in 1..Len(result) : result[k] \notin above}
             IN n < max_matches =>
                   /\ {result[k] : k \in 1..n} = above
                   /\ Len(result) = total
                   /\ Cardinality(Range(result)) = total
                   /\ Range(result) \subseteq PhrasesIn(scores)
                   /\ Cardinality(below) = total - n
                   /\ NoneBetterOmitted(scores, result, PhrasesIn(scores) \ above)]_vars

\* C13's case: a call has returned phrases in threshold followed by some,
\* not all, of the phrases below it.
C13_Witness ==
    \E c \in Callers :
        /\ pc[c] = "returned" /\ call[c].op = "candidates" /\ StrategyOf(c) = GUESS
        /\ LET above == InThreshold(ScoresOf(c))
           IN /\ above # {}
              /\ Cardinality(above) < config[call[c].eng].max_matches
              /\ Range(call[c].value) \ above # {}
              /\ PhrasesIn(ScoresOf(c)) \ Range(call[c].value) # {}

\* The engines of the fuzzy strategy whose SpellModel is primed.
Primed == {e \in Engines : config[e].strategy_name = GUESS /\ Ready(e)}

\* The words looked up: those of the queries and the known words themselves.
LookedUp(model) ==
    UNION {Range(split(lower(q))) : q \in QueryInputs} \cup DOMAIN model

\* word with its i-th character removed.
Without(word, i) == SubSeq(word, 1, i - 1) \o SubSeq(word, i + 1, Len(word))

\* The known words obtained from w by deleting one character, or by
\* inserting one character of a-z0-9 at any position.
OneEditKnown(model, w) ==
    {k \in DOMAIN model :
        \/ \E i \in 1..Len(w) : k = Without(w, i)
        \/ \E i \in 1..Len(k) : k[i] \in Range(charset) /\ Without(k, i) = w}

\* What C14 says lookup_word(w) returns, given the word r it returned.
ResolvedAsSpecified(model, w, r) ==
    IF w \in DOMAIN model THEN r = w
    ELSE IF OneEditKnown(model, w) # {}
    THEN /\ r \in OneEditKnown(model, w)
         /\ \A k \in OneEditKnown(model, w) : model[k] <= model[r]
    ELSE r = w

OneReplacement(w, k) ==
    /\ Len(k) = Len(w)
    /\ Cardinality({i \in 1..Len(w) : k[i] # w[i]}) = 1

\* word with the characters at i and i + 1 exchanged.
Transposed(word, i) ==
    [j \in 1..Len(word) |->
        IF j = i THEN word[i + 1] ELSE IF j = i + 1 THEN word[i] ELSE word[j]]

\* C15: a word one replacement away from a known word resolves to a known
\* word, lookup_word("bacin") is "bacon" when "Bacon" is in the data set, and
\* the single edits of a word contain its replacements and transpositions.
C15_Replacements ==
    \A e \in Primed :
        LET model == mem[e].lookup.model
        IN /\ lower(Bacon) \in DOMAIN model =>
                 lookup_word(mem[e].lookup, bacin, mem[e].order) = lower(Bacon)
           /\ \A w \in LookedUp(model) :
                 /\ (\E k \in DOMAIN model : OneReplacement(w, k)) =>
                       lookup_word(mem[e].lookup, w, mem[e].order) \in DOMAIN model
                 /\ \A i \in 1..(Len(w) - 1) :
                       w[i] # w[i + 1] => Transposed(w, i) \in single_edits(w)
                 /\ \A i \in 1..Len(w) : \A ch \in Range(charset) \ {w[i]} :
                       [w EXCEPT ![i] = ch] \in single_edits(w)

\* p is a prefix of t.
IsPrefix(p, t) == Len(p) <= Len(t) /\ SubSeq(t, 1, Len(p)) = p

\* A candidates() call of the fuzzy engine has returned, the query was one
\* word, and max_matches is at least the number of phrases of the data set.
OneWordReturned(c) ==
    /\ pc[c] = "returned" /\ call[c].op = "candidates" /\ StrategyOf(c) = GUESS
    /\ split(call[c].query) = <<call[c].query>>
    /\ config[call[c].eng].max_matches >= Len(files[config[call[c].eng].data_file].elems)

\* The indexed tokens the query of the call is a prefix of, with at least
\* MIN_N_GRAM_SIZE characters of the query.
PrefixedTokens(c) ==
    {t \in DOMAIN mem[call[c].eng].token_to_item :
        Len(call[c].query) >= MIN_N_GRAM_SIZE /\ IsPrefix(call[c].query, t)}

\* Every phrase that contains token t is among the results of the call.
AllPhrasesOf(c, t) ==
    Range(mem[call[c].eng].token_to_item[t]) \subseteq Range(call[c].value)

Answered(c) == pc[c] \in {"returned", "raised"} /\ call[c].op = "candidates"

\* The engine of call c with its sets iterating in the order o: what another
\* engine built from the same data set can hold.
BuiltAlike(c, o) == [mem[call[c].eng] EXCEPT !.order = o]

\* C17: candidates() is a function of the data set, the query and
\* max_matches: an engine built from the same data set returns the same
\* ordered sequence, whatever the iteration order of its sets, also among
\* phrases of equal score and spelling candidates of equal frequency.
C17_Deterministic ==
    \A c \in Callers :
        Answered(c) =>
            \A o \in SetOrders :
                LET r == RunAlone(StrategyOf(c), BuiltAlike(c, o), call[c].query,
                                  config[call[c].eng].max_matches)
                IN r.exc = call[c].exc /\ r.value = call[c].value

\* A candidates() call of the substring engine has ended.
SimpleAnswered(c) == Answered(c) /\ StrategyOf(c) = SIMPLE

\* C18: for a query in any letter case the substring engine returns at most
\* max_matches phrases, all of them in the set under the lower-cased query,
\* and nothing when the lower-cased query is not a key; queries that differ
\* only in case get the same result; on ["Bacon"], "bac" gives ["Bacon"] and
\* "xyz" gives nothing.
C18_CaseInsensitive ==
    \A c \in Callers :
        SimpleAnswered(c) =>
            LET index == mem[call[c].eng].index.d
                q == call[c].query
                max_matches == config[call[c].eng].max_matches
                same == RunAlone(SIMPLE, mem[call[c].eng], lower(q), max_matches)
            IN /\ call[c].exc = "none"
               /\ Len(call[c].value) <= max_matches
               /\ Range(call[c].value) \subseteq Get(index, lower(q), {})
               /\ lower(q) \notin DOMAIN index => call[c].value = <<>>
               /\ call[c].value = same.value /\ call[c].exc = same.exc
               /\ (files[DATA_PATH] = Phrases(<<Bacon>>) /\ lower(q) = bac
                     /\ max_matches > 0) => call[c].value = <<Bacon>>
               /\ (files[DATA_PATH] = Phrases(<<Bacon>>) /\ lower(q) = xyz)
                     => call[c].value = <<>>

\* The contiguous substrings of s that have at least MIN_N_GRAM_SIZE
\* characters.
Substrings(s) ==
    {SubSeq(s, b[1], b[2]) :
        b \in {x \in (1..Len(s)) \X (1..Len(s)) : x[2] - x[1] + 1 >= MIN_N_GRAM_SIZE}}

\* The phrases of the data set the build of call c read.
DataOf(c) == Range(Strs(call[c].dataSeen.elems))

\* The substring engine's build_index has returned an index in call c.
SimpleBuilt(c) ==
    /\ pc[c] \in {"store", "dump", "assign"}
    /\ call[c].op = "init" /\ call[c].builds > 0
    /\ StrategyOf(c) = SIMPLE

\* C19: after the substring engine's build the keys of the index are exactly
\* the contiguous substrings of length >= 3 of the normalized phrases (none
\* shorter, none empty), and each key maps to exactly the phrases whose
\* normalized form contains it.
C19_SubstringKeys ==
    \A c \in Callers :
        SimpleBuilt(c) =>
            LET index == call[c].idx.d
            IN /\ DOMAIN index = UNION {Substrings(Normalise(p)) : p \in DataOf(c)}
               /\ \A k \in DOMAIN index :
                     /\ Len(k) >= MIN_N_GRAM_SIZE
                     /\ index[k] = {p \in DataOf(c) : k \in Substrings(Normalise(p))}

\* A candidates(query) call of the fuzzy engine built from `data` has
\* returned.
GuessReturned(c, data, query) ==
    /\ pc[c] = "returned" /\ call[c].op = "candidates" /\ StrategyOf(c) = GUESS
    /\ files[config[call[c].eng].data_file] = Phrases(data)
    /\ call[c].query = query

\* C20: the fuzzy engine with max_matches 10 on ["Bacon", "Eggs", "Fried
\* Eggs", "Scrambled Eggs"] answers "eggs" with "Eggs" first, at score 1.0,
\* and without "Bacon"; on ["Toast", "Raisin Toast"] it answers "toast" with
\* "Toast" first; and no phrase is returned that contains no token reached
\* from the resolved words of the query.
C20_Scenarios ==
    \A c \in Callers :
        /\ (GuessReturned(c, <<Bacon, Eggs, Fried_Eggs, Scrambled_Eggs>>, eggs)
              /\ config[call[c].eng].max_matches = DEFAULT_MAX_MATCHES) =>
                 /\ call[c].value # <<>>
                 /\ call[c].value[1] = Eggs
                 /\ SameScore(ScoreIn(ScoresOf(c), Eggs), <<1, 1>>)
                 /\ Bacon \notin Range(call[c].value)
        /\ (GuessReturned(c, <<Toast, Raisin_Toast>>, toast)
              /\ config[call[c].eng].max_matches = DEFAULT_MAX_MATCHES) =>
                 /\ call[c].value # <<>>
                 /\ call[c].value[1] = Toast
        /\ (pc[c] = "returned" /\ call[c].op = "candidates" /\ StrategyOf(c) = GUESS) =>
                 \A p \in Range(call[c].value) :
                     TokensOf(p) \cap MatchedTokens(c) # {}

\* C20's case: the query "eggs" has been answered with three phrases on the
\* data set of Scenario A.
C20_Witness ==
    \E c \in Callers :
        /\ GuessReturned(c, <<Bacon, Eggs, Fried_Eggs, Scrambled_Eggs>>, eggs)
        /\ config[call[c].eng].max_matches = DEFAULT_MAX_MATCHES
        /\ Len(call[c].value) = 3

\* The values of the acceptance threshold, as fractions: below, between and
\* above the scores, and SCORE_THRESHOLD itself.
Thresholds == {<<0, 1>>, <<1, 5>>, SCORE_THRESHOLD, <<1, 2>>, <<1, 1>>, <<5, 1>>}

\* The position of phrase p in a list of (phrase, score) pairs.
PosIn(scores, p) == CHOOSE i \in 1..Len(scores) : scores[i][1] = p

\* p comes before q in a stable sort of `scores` by descending score.
SortsBefore(scores, p, q) ==
    \/ ~Ge(ScoreIn(scores, q), ScoreIn(scores, p))
    \/ /\ SameScore(ScoreIn(scores, p), ScoreIn(scores, q))
       /\ PosIn(scores, p) < PosIn(scores, q)

\* `result` is the first max_matches phrases of the stable sort of `scores`
\* by descending score.
IsSortedPrefix(scores, result, max_matches) ==
    /\ Len(result) = IF max_matches < Len(scores) THEN max_matches ELSE Len(scores)
    /\ Range(result) \subseteq PhrasesIn(scores)
    /\ \A k, l \in 1..Len(result) :
          k < l => result[k] # result[l] /\ SortsBefore(scores, result[k], result[l])
    /\ \A p \in Range(result), q \in PhrasesIn(scores) \ Range(result) :
          SortsBefore(scores, p, q)
    /\ \A k \in 1..(Len(result) - 1) :
          Ge(ScoreIn(scores, result[k]), ScoreIn(scores, result[k + 1]))

\* C21: whichever branch of the fuzzy engine's filter is taken, the result is
\* the first max_matches phrases of the candidates sorted by descending
\* combined score with a stable sort: min(max_matches, candidates) distinct
\* phrases in non-increasing score order, the same for every value of the
\* acceptance threshold.
C21_SortedPrefix ==
    [][\A c \in Callers :
          Filters(c) =>
             LET scores == call[c].ranked
                 result == call'[c].value
                 max_matches == config[call[c].eng].max_matches
             IN /\ IsSortedPrefix(scores, result, max_matches)
                /\ \A th \in Thresholds :
                      filtered_results_at(scores, max_matches, th) = result]_vars

\* C21's case: a call has returned a cut of candidates of which some are in
\* threshold and some are not, the cut falling among the latter.
C21_Witness ==
    \E c \in Callers :
        /\ pc[c] = "returned" /\ call[c].op = "candidates" /\ StrategyOf(c) = GUESS
        /\ LET scores == ScoresOf(c)
           IN /\ Len(call[c].value) < Len(scores)
              /\ InThreshold(scores) # {}
              /\ Range(call[c].value) \ InThreshold(scores) # {}

\* C22: when an init() has failed while writing the artifact, no artifact
\* (empty or partly written) is left at the artifact path, so that no later
\* init() for the same data-set path and strategy fails at load: it meets a
\* cache miss and rebuilds.
C22_NoLeftover ==
    \A c \in Callers :
        (call[c].op = "init" /\ pc[c] = "raised") =>
            /\ call[c].at = "dump" => ~artifact[IdxName(call[c].eng)].exists
            /\ call[c].at # "load"

\* The index build_index returns for the engine's own data set and strategy,
\* its sets iterating in order o.
OwnIndex(e, o) ==
    (IF config[e].strategy_name = GUESS
     THEN Guess_build_index(files[config[e].data_file], o)
     ELSE Simple_build_index(files[config[e].data_file], o)).idx

\* C23: the artifact path is a function of (data-set path, strategy name)
\* that maps distinct pairs to distinct paths, also for data-set paths that
\* differ only in '/' versus '_' or in what follows the first '.json'; so an
\* init() never loads an index built from another data set or by another
\* strategy.
C23_InjectiveNames ==
    /\ \A p1, p2 \in DataPaths, s1, s2 \in ALL_STRATEGIES :
          index_name(p1, s1) = index_name(p2, s2) => p1 = p2 /\ s1 = s2
    /\ \A c \in Callers :
          (call[c].op = "init" /\ call[c].loadSaw = "ok") =>
              \E o \in SetOrders :
                  call[c].loaded = OwnIndex(call[c].eng, o)

=============================================================================
